---- MODULE Spec2Model ----
(***************************************************************************)
(* Request orchestration core of the disaster/weather assistant:           *)
(*   backend/main.py                  inbound handler, SESSION_MEMORY      *)
(*   src/agents/workflow/workflow.py  rewrite -> router -> responder ->    *)
(*                                    evaluator graph                      *)
(*   src/agents/policies/routing_policy.py   RoutingPolicy.route           *)
(*   src/agents/memory/short_term.py         ShortTermMemory               *)
(*   src/agents/agent_types/evaluator_agent.py  EvaluatorAgent.__call__    *)
(*                                                                         *)
(* Text is modelled as a sequence of one-character strings, so that        *)
(* lower(), strip() and the substring test `kw in query` are computed the  *)
(* way Python computes them.                                               *)
(***************************************************************************)
EXTENDS Integers, Sequences, FiniteSets, TLC

(***************************************************************************)
(* Text helpers (Python str methods used by the code)                      *)
(***************************************************************************)

\* The letters str.lower() changes, and what it changes them to.
UpperLetters ==
    <<"A","B","C","D","E","F","G","H","I","J","K","L","M",
      "N","O","P","Q","R","S","T","U","V","W","X","Y","Z">>

LowerLetters ==
    <<"a","b","c","d","e","f","g","h","i","j","k","l","m",
      "n","o","p","q","r","s","t","u","v","w","x","y","z">>

\* str.lower() on one character
LowerChar(c) ==
    IF \E i \in DOMAIN UpperLetters : UpperLetters[i] = c
    THEN LowerLetters[CHOOSE i \in DOMAIN UpperLetters : UpperLetters[i] = c]
    ELSE c

\* str.lower()
Lower(s) == [i \in DOMAIN s |-> LowerChar(s[i])]

\* the characters str.strip() removes
Whitespace == {" ", "\t", "\n"}

\* str.strip(): drop leading and trailing whitespace
Strip(s) ==
    LET keep == {i \in DOMAIN s : s[i] \notin Whitespace}
    IN  IF keep = {} THEN <<>>
        ELSE LET lo == CHOOSE i \in keep : \A j \in keep : i <= j
                 hi == CHOOSE i \in keep : \A j \in keep : j <= i
             IN  SubSeq(s, lo, hi)

\* Python `kw in s` for two strings
StrIn(kw, s) ==
    \E i \in 1..(Len(s) - Len(kw) + 1) : SubSeq(s, i, i + Len(kw) - 1) = kw

(***************************************************************************)
(* RoutingPolicy  (src/agents/policies/routing_policy.py)                  *)
(***************************************************************************)

\* routing_policy.py:24-27  self.calculator_keywords
calculator_keywords ==
    { <<"c", "a", "l", "c", "u", "l", "a", "t", "e">>,
      <<"c", "o", "m", "p", "u", "t", "e">>,
      <<"m", "a", "t", "h">>,
      <<"p", "e", "r", "c", "e", "n", "t", "a", "g", "e">>,
      <<"a", "d", "d", "i", "t", "i", "o", "n">>,
      <<"s", "u", "b", "t", "r", "a", "c", "t", "i", "o", "n">>,
      <<"m", "u", "l", "t", "i", "p", "l", "y">>,
      <<"d", "i", "v", "i", "d", "e">> }

\* routing_policy.py:29  self.calculator_symbols
calculator_symbols ==
    { <<"+">>,
      <<"-">>,
      <<"*">>,
      <<"/">>,
      <<"=">>,
      <<"%">> }

\* routing_policy.py:31-35  self.web_search_keywords
web_search_keywords ==
    { <<"s", "e", "a", "r", "c", "h">>,
      <<"g", "o", "o", "g", "l", "e">>,
      <<"f", "i", "n", "d">>,
      <<"l", "o", "o", "k", " ", "u", "p">>,
      <<"l", "a", "t", "e", "s", "t">>,
      <<"n", "e", "w", "s">>,
      <<"c", "u", "r", "r", "e", "n", "t">>,
      <<"t", "o", "d", "a", "y">>,
      <<"w", "h", "a", "t", " ", "i", "s", " ", "h", "a", "p", "p", "e", "n", "i", "n", "g">>,
      <<"r", "e", "c", "e", "n", "t">>,
      <<"u", "p", "d", "a", "t", "e">> }

\* routing_policy.py:45-51  self.weather_keywords
weather_keywords ==
    { <<"w", "e", "a", "t", "h", "e", "r">>,
      <<"t", "e", "m", "p", "e", "r", "a", "t", "u", "r", "e">>,
      <<"r", "a", "i", "n">>,
      <<"r", "a", "i", "n", "f", "a", "l", "l">>,
      <<"w", "i", "n", "d">>,
      <<"h", "u", "m", "i", "d", "i", "t", "y">>,
      <<"c", "l", "o", "u", "d">>,
      <<"c", "l", "i", "m", "a", "t", "e">>,
      <<"f", "o", "r", "e", "c", "a", "s", "t">>,
      <<"i", "m", "d">>,
      <<"h", "e", "a", "t">>,
      <<"c", "o", "l", "d">>,
      <<"s", "u", "n", "n", "y">>,
      <<"v", "i", "s", "i", "b", "i", "l", "i", "t", "y">>,
      <<"t", "o", "d", "a", "y">>,
      <<"t", "o", "m", "o", "r", "r", "o", "w">>,
      <<"l", "i", "v", "e">>,
      <<"c", "o", "a", "s", "t", "a", "l">>,
      <<"s", "e", "a">>,
      <<"f", "i", "s", "h", "e", "r", "m", "e", "n">> }

\* routing_policy.py:54-59  self.rag_keywords
rag_keywords ==
    { <<"h", "i", "s", "t", "o", "r", "y">>,
      <<"p", "a", "s", "t">>,
      <<"h", "i", "s", "t", "o", "r", "i", "c", "a", "l">>,
      <<"r", "e", "p", "o", "r", "t">>,
      <<"p", "a", "p", "e", "r">>,
      <<"d", "o", "c", "u", "m", "e", "n", "t">>,
      <<"s", "t", "u", "d", "y">>,
      <<"r", "e", "s", "e", "a", "r", "c", "h">>,
      <<"p", "r", "e", "v", "i", "o", "u", "s", " ", "c", "y", "c", "l", "o", "n", "e">>,
      <<"p", "r", "e", "v", "i", "o", "u", "s", " ", "d", "i", "s", "a", "s", "t", "e", "r">>,
      <<"f", "a", "n", "i">>,
      <<"p", "h", "a", "i", "l", "i", "n">>,
      <<"i", "m", "p", "a", "c", "t">>,
      <<"d", "a", "m", "a", "g", "e", " ", "a", "s", "s", "e", "s", "s", "m", "e", "n", "t">> }

\* routing_policy.py:62-65  self.historical_intents
historical_intents ==
    { <<"w", "a", "s">>,
      <<"w", "e", "r", "e">>,
      <<"h", "a", "p", "p", "e", "n", "e", "d">>,
      <<"o", "c", "c", "u", "r", "r", "e", "d">>,
      <<"p", "r", "e", "v", "i", "o", "u", "s">>,
      <<"l", "a", "s", "t", " ", "y", "e", "a", "r">>,
      <<"a", "g", "o">> }

\* routing_policy.py:71-73  _contains
_contains(query, keywords) == \E kw \in keywords : StrIn(kw, query)

\* routing_policy.py:79-81  _has_math_symbols
_has_math_symbols(query) == \E sym \in calculator_symbols : StrIn(sym, query)

\* What the optional classifier call can do (routing_policy.py:164-182): raise,
\* or return a text that strip().lower() turns into one of these labels.
ClassifierOutcomes == {"weather", "disaster", "rag", "general", "other", "raise"}

\* routing_policy.py:158-194  llm_fallback; `outcome` is what the classifier did
llm_fallback(outcome) ==
    IF outcome = "raise" THEN "general"
    ELSE IF outcome \in {"weather", "disaster", "rag", "general"} THEN outcome
    ELSE "general"

\* routing_policy.py:98  q = query.lower().strip()
NormalizeQuery(query) == Strip(Lower(query))

\* route with the weather test moved ahead of the rag test
routeWeatherFirst(query, hasClient, outcome) ==
    LET q == NormalizeQuery(query)
    IN  IF _has_math_symbols(query) \/ _contains(q, calculator_keywords)
        THEN "calculator"
        ELSE IF _contains(q, web_search_keywords)
        THEN "web_search"
        ELSE IF _contains(q, weather_keywords)
        THEN "weather"
        ELSE IF _contains(q, rag_keywords) \/ (\E word \in historical_intents : StrIn(word, q))
        THEN "rag"
        ELSE IF hasClient
        THEN llm_fallback(outcome)
        ELSE "general"

\* routing_policy.py:87-152  route; hasClient is `self.client` being set
route(query, hasClient, outcome) ==
    LET q == NormalizeQuery(query)
    IN  IF _has_math_symbols(query) \/ _contains(q, calculator_keywords)
        THEN "calculator"
        ELSE IF _contains(q, web_search_keywords)
        THEN "web_search"
        ELSE IF _contains(q, rag_keywords) \/ (\E word \in historical_intents : StrIn(word, q))
        THEN "rag"
        ELSE IF _contains(q, weather_keywords)
        THEN "weather"
        ELSE IF hasClient
        THEN llm_fallback(outcome)
        ELSE "general"

(***************************************************************************)
(* ShortTermMemory  (src/agents/memory/short_term.py)                      *)
(***************************************************************************)

\* short_term.py:17  `if len(self.buffer) > 10`
Capacity == 10

\* add that drops the newest interaction (pop() for pop(0))
ShortTermMemory_addDropNewest(buffer, interaction) ==
    LET appended == Append(buffer, interaction)
    IN  IF Len(appended) > Capacity THEN SubSeq(appended, 1, Len(appended) - 1) ELSE appended

\* short_term.py:12-18  add: append, then drop the oldest beyond the capacity
ShortTermMemory_add(buffer, interaction) ==
    LET appended == Append(buffer, interaction)
    IN  IF Len(appended) > Capacity THEN Tail(appended) ELSE appended

\* short_term.py:20-21  get
ShortTermMemory_get(buffer) == buffer

\* short_term.py:23-24  clear
ShortTermMemory_clear(buffer) == <<>>

(***************************************************************************)
(* Bounds and input sets                                                   *)
(***************************************************************************)

\* requests accepted in one behaviour
MaxRequests == 2
\* add calls in one behaviour of the memory specification
MaxAdds == 12
\* text fragments concatenated into one query of the routing specification
MaxFrags == 2

\* the worker threads of the server that run ask_question at the same time
Threads == {1, 2}

SessionIds == {"s1", "s2"}

\* unset field of the request state (Python None / missing key)
NoneText == <<"<None>">>

\* queries a caller sends
Q_calc == <<"2", "+", "2">>
Q_fani == <<"f", "a", "n", "i">>
Q_hi == <<"h", "i">>
Queries == {Q_calc, Q_fani, Q_hi}

\* texts the generation capability may return to the rewriter (before strip)
RewriterTexts ==
    { <<" ">>,
      <<" ", "r", "a", "i", "n">>,
      <<"n", "e", "w", "s", " ">> }

\* what the rewriter's generation call can do: raise, or return a text
RewriterOutcomes == {<<"<raise>">>} \cup RewriterTexts

(***************************************************************************)
(* Responders and tools                                                    *)
(***************************************************************************)

Digits == <<"0", "1", "2", "3", "4", "5", "6", "7", "8", "9">>

IsDigit(c) == \E i \in DOMAIN Digits : Digits[i] = c

DigitVal(c) == (CHOOSE i \in DOMAIN Digits : Digits[i] = c) - 1

RECURSIVE NatText(_)
\* str() of a natural number
NatText(n) ==
    IF n < 10 THEN <<Digits[n + 1]>>
    ELSE NatText(n \div 10) \o <<Digits[(n % 10) + 1]>>

\* str() of an integer
IntText(n) == IF n < 0 THEN <<"-">> \o NatText(0 - n) ELSE NatText(n)

\* the expressions whose value is computed here: digit, one of + - *, digit
IsDigitOpDigit(expr) ==
    /\ Len(expr) = 3
    /\ IsDigit(expr[1])
    /\ expr[2] \in {"+", "-", "*"}
    /\ IsDigit(expr[3])

DigitOpDigitValue(expr) ==
    LET a == DigitVal(expr[1])
        b == DigitVal(expr[3])
    IN  CASE expr[2] = "+" -> a + b
          [] expr[2] = "-" -> a - b
          [] expr[2] = "*" -> a * b

\* str.replace(c, ""): the text without the character c
RemoveChar(s, c) == SelectSeq(s, LAMBDA x : x # c)

\* where the separator "of" starts in s; str.split("of") gives one part more
\* than there are separators
OfPositions(s) == {i \in 1..(Len(s) - 1) : s[i] = "o" /\ s[i + 1] = "f"}

\* the texts whose float() is computed here: one or more decimal digits
IsNatText(s) == s # <<>> /\ \A i \in DOMAIN s : IsDigit(s[i])

RECURSIVE ParseNat(_)
\* float() of a text of decimal digits
ParseNat(s) ==
    IF s = <<>> THEN 0
    ELSE ParseNat(SubSeq(s, 1, Len(s) - 1)) * 10 + DigitVal(s[Len(s)])

\* f"{result:.2f}" of a result of h hundredths
TwoDecimals(h) ==
    NatText(h \div 100) \o <<".">> \o <<Digits[((h % 100) \div 10) + 1], Digits[(h % 10) + 1]>>

\* calculator.py:79,81  whether (percentage / 100) * value, computed in binary
\* floating point, is_integer().  A product that is not whole is not whole as a
\* double either.  A whole product is whole as a double for 15 and 50 percent of
\* 100 and 200; 7/100 rounds to a double above 0.07, so 7 percent of 100 is
\* 7.000000000000001 and 7 percent of 200 is 14.000000000000002.  Any other
\* pair can go either way.
FloatProductIsWhole(p, v) ==
    CASE (p * v) % 100 # 0 -> {FALSE}
      [] <<p, v>> \in {<<7, 100>>, <<7, 200>>} -> {FALSE}
      [] <<p, v>> \in {<<15, 100>>, <<15, 200>>, <<50, 100>>, <<50, 200>>} -> {TRUE}
      [] OTHER -> {TRUE, FALSE}

\* calculator.py:81-83  str(int(result)) when whole, else two decimals
FormatPercentage(p, v) ==
    { IF whole THEN NatText((p * v) \div 100) ELSE TwoDecimals(p * v) :
        whole \in FloatProductIsWhole(p, v) }

\* calculator.py:59-86  _handle_percentage: the results it can return, NoneText
\* for None.  float() is computed for texts of digits, raises for the empty
\* text, and for any other text either raises or gives some value.
_handle_percentage(expr) ==
    LET text == RemoveChar(Lower(expr), "%")
        at == OfPositions(text)
    IN  IF Cardinality(at) # 1 THEN {NoneText}
        ELSE LET i == CHOOSE k \in at : TRUE
                 left == Strip(SubSeq(text, 1, i - 1))
                 right == Strip(SubSeq(text, i + 2, Len(text)))
             IN  IF left = <<>> \/ right = <<>> THEN {NoneText}
                 ELSE IF IsNatText(left) /\ IsNatText(right)
                 THEN FormatPercentage(ParseNat(left), ParseNat(right))
                 ELSE {NoneText, <<"<value>">>}

\* calculator.py:31-56  calculator_tool: the texts it can return for an
\* expression.  numexpr's value is computed for digit-op-digit expressions; for
\* any other text it either evaluates (some value) or raises (the error text).
calculator_tool(expression) ==
    IF expression = <<>> THEN {<<"Error: No expression provided">>}
    ELSE LET expr == Strip(expression)
             evaluated == IF IsDigitOpDigit(expr) THEN {IntText(DigitOpDigitValue(expr))}
                          ELSE {<<"<value>">>, <<"Calculator error: ">>}
         IN  IF StrIn(<<"%">>, expr) /\ StrIn(<<"o", "f">>, Lower(expr))
             THEN UNION { IF r # NoneText THEN {r} ELSE evaluated :
                            r \in _handle_percentage(expr) }
             ELSE evaluated

\* web_search_tool.py:25-68  web_search_tool: the texts it can return
web_search_tool(query) ==
    IF Strip(query) = <<>> THEN {<<"Error: No search query provided.">>}
    ELSE {<<"<search results or error text>">>}

\* weather_agent.py:19-97  WeatherAgent.__call__: every path returns a response text
WeatherAgent_call(query) == {<<"<weather response>">>}

\* rag_agent.py:13-64  RAGAgent.run: every path returns an answer text
RAGAgent_run(query) == {<<"<rag answer>">>}

\* user_query_agent.py:27-51  UserQueryAgent.__call__
UserQueryAgent_call(query) ==
    IF query = <<>> THEN {<<"I didn't receive a query. Please ask me something!">>}
    ELSE {<<"<general answer>">>}

(***************************************************************************)
(* WeatherAgent and its tools  (agent_types/weather_agent.py,              *)
(* tools/weather_api.py, tools/local_file_reader.py)                       *)
(***************************************************************************)

\* weather_api.py:12-28  STATION_MAP, in insertion order: <<name, station id>>
STATION_MAP ==
    << <<<<"b", "h", "u", "b", "a", "n", "e", "s", "w", "a", "r">>, 42971>>,
       <<<<"c", "u", "t", "t", "a", "c", "k">>, 42963>>,
       <<<<"p", "u", "r", "i">>, 43053>>,
       <<<<"s", "a", "m", "b", "a", "l", "p", "u", "r">>, 42823>>,
       <<<<"b", "a", "l", "a", "s", "o", "r", "e">>, 43185>>,
       <<<<"b", "e", "r", "h", "a", "m", "p", "u", "r">>, 43279>>,
       <<<<"r", "o", "u", "r", "k", "e", "l", "a">>, 42793>>,
       <<<<"k", "e", "n", "d", "r", "a", "p", "a", "r", "a">>, 93261>>,
       <<<<"k", "h", "o", "r", "d", "h", "a">>, 88834>>,
       <<<<"j", "a", "g", "a", "t", "s", "i", "n", "g", "h", "p", "u", "r">>, 93260>>,
       <<<<"p", "a", "r", "a", "d", "i", "p">>, 42976>>,
       <<<<"b", "h", "a", "d", "r", "a", "k">>, 43183>>,
       <<<<"a", "n", "g", "u", "l">>, 42841>>,
       <<<<"d", "h", "e", "n", "k", "a", "n", "a", "l">>, 42891>>,
       <<<<"j", "a", "j", "p", "u", "r">>, 93259>> >>

\* the default location is not a name of the gazetteer
weather_location_detectorDefaultState(query) ==
    LET query_lower == Lower(query)
        hits == {i \in DOMAIN STATION_MAP : StrIn(STATION_MAP[i][1], query_lower)}
    IN  IF hits # {} THEN STATION_MAP[CHOOSE i \in hits : \A j \in hits : i <= j][1]
        ELSE <<"o", "d", "i", "s", "h", "a">>

\* weather_api.py:32-57  weather_location_detector: the first name of
\* STATION_MAP that occurs in the lowered query, else "bhubaneswar"
weather_location_detector(query) ==
    LET query_lower == Lower(query)
        hits == {i \in DOMAIN STATION_MAP : StrIn(STATION_MAP[i][1], query_lower)}
    IN  IF hits # {} THEN STATION_MAP[CHOOSE i \in hits : \A j \in hits : i <= j][1]
        ELSE <<"b", "h", "u", "b", "a", "n", "e", "s", "w", "a", "r">>

\* weather_api.py:61-79  weather_station_mapper: STATION_MAP.get(location.lower().strip());
\* 0 stands for None (`not station_id` holds for both, and no station has id 0)
weather_station_mapper(location) ==
    LET location_lower == Strip(Lower(location))
        hits == {i \in DOMAIN STATION_MAP : STATION_MAP[i][1] = location_lower}
    IN  IF hits = {} THEN 0 ELSE STATION_MAP[CHOOSE i \in hits : TRUE][2]

\* weather_agent.py:25-28  pdf_keywords
pdf_keywords ==
    { <<"p", "d", "f">>,
      <<"b", "u", "l", "l", "e", "t", "i", "n">>,
      <<"w", "a", "r", "n", "i", "n", "g">>,
      <<"a", "d", "v", "i", "s", "o", "r", "y">>,
      <<"c", "o", "a", "s", "t", "a", "l">>,
      <<"f", "i", "s", "h", "e", "r", "m", "e", "n">>,
      <<"r", "a", "i", "n", "f", "a", "l", "l">>,
      <<"w", "e", "e", "k", "l", "y">>,
      <<"c", "o", "m", "p", "o", "s", "i", "t", "e">> }

\* weather_agent.py:33  the keys tried for the bulletin type, in order
pdf_type_keys ==
    << <<"c", "o", "a", "s", "t", "a", "l">>,
       <<"f", "i", "s", "h", "e", "r", "m", "e", "n">>,
       <<"r", "a", "i", "n", "f", "a", "l", "l">>,
       <<"w", "e", "e", "k", "l", "y">>,
       <<"c", "o", "m", "p", "o", "s", "i", "t", "e">> >>

\* weather_agent.py:32-35  pdf_type: "evening", or the last key of the loop
\* that occurs in the query, as a label
PdfTypeLabels == <<"coastal", "fishermen", "rainfall", "weekly", "composite">>

pdf_type(query) ==
    LET hits == {i \in DOMAIN pdf_type_keys : StrIn(pdf_type_keys[i], query)}
    IN  IF hits = {} THEN "evening"
        ELSE PdfTypeLabels[CHOOSE i \in hits : \A j \in hits : j <= i]

\* local_file_reader.py:13-20  the keys of IMD_PDFS
IMD_PDFS ==
    { "evening", "rainfall", "coastal_warning", "weekly_rainfall",
      "fishermen_warning", "composite_bulletin" }

\* str.upper() of a bulletin type, with replace("_", " ") where the reader
\* applies it (local_file_reader.py:57, weather_agent.py:40)
UpperLabel(type) ==
    CASE type = "evening" -> "EVENING"
      [] type = "rainfall" -> "RAINFALL"
      [] type = "coastal" -> "COASTAL"
      [] type = "fishermen" -> "FISHERMEN"
      [] type = "weekly" -> "WEEKLY"
      [] type = "composite" -> "COMPOSITE"
      [] type = "coastal_warning" -> "COASTAL WARNING"
      [] type = "weekly_rainfall" -> "WEEKLY RAINFALL"
      [] type = "fishermen_warning" -> "FISHERMEN WARNING"
      [] type = "composite_bulletin" -> "COMPOSITE BULLETIN"

\* What _download_and_extract can return (local_file_reader.py:87-134): the
\* text of the first page, or one of its error texts; it never raises
Downloads == {"<bulletin text>", "<download error text>"}

\* local_file_reader.py:49-61  imd_pdf_reader for one type (never "all" from
\* the agent): its labelled text, or the unknown-type text
imd_pdf_reader(type, download) ==
    IF type \in IMD_PDFS THEN <<"[", UpperLabel(type), "]", download>>
    ELSE <<"Error: Unknown PDF type ", type>>

\* the stages of the pipeline, in order
WeatherStages == <<"bulletin", "detection", "mapping", "fetch", "summary">>

\* weather_agent.py:43,51,59,71  the label of the error response when the
\* call of a stage raises (the leading pictograph left out)
WeatherErrorLabel(stage) ==
    CASE stage = "bulletin" -> "PDF Error: "
      [] stage = "detection" -> "Location detection error: "
      [] stage = "mapping" -> "Station mapping error: "
      [] stage = "fetch" -> "Weather scraping error: "

(***************************************************************************)
(* RAGAgent and RAGTool  (src/agents/agent_types/rag_agent.py,             *)
(* src/agents/tools/rag_tool.py)                                           *)
(***************************************************************************)

RECURSIVE count_from(_, _, _)
\* the occurrences counted from position i on: `hits` are the positions where
\* the text of n characters occurs; the leftmost is counted and the search
\* goes on behind it
count_from(hits, n, i) ==
    LET later == {h \in hits : h >= i}
    IN  IF later = {} THEN 0
        ELSE 1 + count_from(hits, n, (CHOOSE h \in later : \A g \in later : h <= g) + n)

\* str.count(sub): the occurrences of sub in s, left to right, not overlapping
count(s, sub) ==
    count_from({i \in 1..(Len(s) - Len(sub) + 1) : SubSeq(s, i, i + Len(sub) - 1) = sub},
               Len(sub), 1)

\* rag_tool.py:52-58  doc_text of the i-th document; the rules, the page and
\* the relevance are pieces of their own
doc_text(i, doc) ==
    <<"\n", "-", "-", "-", " ">> \o <<"D", "o", "c", "u", "m", "e", "n", "t">> \o <<" ", Digits[i + 1], " ", "-", "-", "-", "\n">>
    \o <<"S", "o", "u", "r", "c", "e", ":", " ">> \o doc.file \o <<" (Page: <page>)\n", "Relevance: 0.000\n", "<rule>", "\n">>
    \o doc.content \o <<"\n">>

RECURSIVE format_from(_, _)
\* rag_tool.py:40-59  the loop over enumerate(docs, 1), from the i-th document
format_from(docs, i) ==
    IF i > Len(docs) THEN <<>>
    ELSE <<"\n">> \o doc_text(i, docs[i]) \o format_from(docs, i + 1)

\* rag_tool.py:31-61  _format_documents
_format_documents(docs) ==
    IF docs = <<>> THEN <<"N", "o", " ", "d", "o", "c", "u", "m", "e", "n", "t", "s", " ", "r", "e", "t", "r", "i", "e", "v", "e", "d">>
    ELSE <<"<rule>", "\n">> \o <<"R", "E", "T", "R", "I", "E", "V", "E", "D", " ", "D", "O", "C", "U", "M", "E", "N", "T", "S">> \o <<"\n", "<rule>">> \o format_from(docs, 1)

\* rag_tool.py:15-29  retrieve: `retriever` is what get_top_k does
retrieve(query, retriever, docs) ==
    IF query = <<>> THEN <<"E", "r", "r", "o", "r", ":", " ", "N", "o", " ", "q", "u", "e", "r", "y", " ", "p", "r", "o", "v", "i", "d", "e", "d">>
    ELSE IF retriever = "raises" THEN <<"R", "A", "G", " ", "r", "e", "t", "r", "i", "e", "v", "a", "l", " ", "e", "r", "r", "o", "r", ":", " ">> \o <<"<exception>">>
    ELSE IF docs = <<>> THEN <<"N", "o", " ", "r", "e", "l", "e", "v", "a", "n", "t", " ", "d", "o", "c", "u", "m", "e", "n", "t", "s", " ", "f", "o", "u", "n", "d">>
    ELSE _format_documents(docs)

\* base_agent.py:52-100  use_tool("rag", query=query, k=5): the text returned,
\* or <<"<raise>">> for the ValueError of a tool that is not registered
use_tool(has_tool, query, retriever, docs) ==
    IF ~has_tool THEN <<"<raise>">> ELSE retrieve(query, retriever, docs)

\* rag_agent.py:19  "error" in retrieved_text.lower()
IsErrorText(retrieved_text) == StrIn(<<"e", "r", "r", "o", "r">>, Lower(retrieved_text))

(***************************************************************************)
(* EvaluatorAgent  (src/agents/agent_types/evaluator_agent.py)             *)
(***************************************************************************)

\* What the scoring generation call can do (evaluator_agent.py:57-71):
\*   llm_error          invoke raises
\*   not_json           the content is not JSON
\*   not_object         the content is JSON but not an object (a list, a number)
\*   score_missing      an object with no "score" key
\*   score_not_numeric  an object whose score float() rejects (null, "high")
\*   issues_not_list    an object with score 0.6 whose "issues" is a text
\*   score_low          an object with score 0.6 and a list of issues
\*   score_mid          an object with score 0.72 and a list of issues
\*   score_high         an object with score 0.9 and a list of issues
EvalOutcomes ==
    { "llm_error", "not_json", "not_object", "score_missing", "score_not_numeric",
      "issues_not_list", "score_low", "score_mid", "score_high" }

\* the object the scoring call answered with: keys as the capability wrote them
ScoredObject(score_kind, score, issues_is_list) ==
    [ is_object |-> TRUE, score_kind |-> score_kind, score |-> score,
      issues_is_list |-> issues_is_list, issues |-> <<>>,
      suggestion |-> "<suggestion>" ]

\* one default for both failures: score 0.7, no issue, the note in suggestion
eval_jsonOneDefault(outcome) ==
    CASE outcome \in {"llm_error", "not_json"} ->
             [ ScoredObject("number", 70, TRUE) EXCEPT
                 !.suggestion = "No strict JSON from LLM; default 0.7" ]
      [] outcome = "not_object" -> [ScoredObject("number", 0, TRUE) EXCEPT !.is_object = FALSE]
      [] outcome = "score_missing" -> ScoredObject("missing", 0, TRUE)
      [] outcome = "score_not_numeric" -> ScoredObject("not_numeric", 0, TRUE)
      [] outcome = "issues_not_list" -> ScoredObject("number", 60, FALSE)
      [] outcome = "score_low" -> ScoredObject("number", 60, TRUE)
      [] outcome = "score_mid" -> ScoredObject("number", 72, TRUE)
      [] outcome = "score_high" -> ScoredObject("number", 90, TRUE)

\* evaluator_agent.py:57-71  eval_json after the scoring try; scores in hundredths
eval_json(outcome) ==
    CASE outcome = "llm_error" ->
             [ ScoredObject("number", 50, TRUE) EXCEPT
                 !.issues = <<"Evaluator LLM error: ">>,
                 !.suggestion = "Evaluator LLM error" ]
      [] outcome = "not_json" ->
             [ ScoredObject("number", 70, TRUE) EXCEPT
                 !.suggestion = "No strict JSON from LLM; default 0.7" ]
      [] outcome = "not_object" -> [ScoredObject("number", 0, TRUE) EXCEPT !.is_object = FALSE]
      [] outcome = "score_missing" -> ScoredObject("missing", 0, TRUE)
      [] outcome = "score_not_numeric" -> ScoredObject("not_numeric", 0, TRUE)
      [] outcome = "issues_not_list" -> ScoredObject("number", 60, FALSE)
      [] outcome = "score_low" -> ScoredObject("number", 60, TRUE)
      [] outcome = "score_mid" -> ScoredObject("number", 72, TRUE)
      [] outcome = "score_high" -> ScoredObject("number", 90, TRUE)

\* evaluator_agent.py:73  score = float(eval_json.get("score", 0.0)) is outside
\* the try: .get raises on what is not an object, float() on what is not numeric
ScoreRaises(outcome) ==
    \/ ~eval_json(outcome).is_object
    \/ eval_json(outcome).score_kind = "not_numeric"

\* evaluator_agent.py:73  the score, in hundredths; 0.0 when the key is missing
EvaluatorScore(outcome) ==
    IF eval_json(outcome).score_kind = "missing" THEN 0 ELSE eval_json(outcome).score

\* evaluator_agent.py:30  plan = state.get("plan", {}) or {}: the state has no plan
NoPlan == [present |-> FALSE, confidence |-> 0, next_agent |-> "general"]

\* evaluator_agent.py:35  planner_conf = float(plan.get("confidence", 0.0))
planner_conf(plan) == IF plan.present THEN plan.confidence ELSE 0

\* evaluator_agent.py:36  plan.get("next_agent", "general")
planner_agent(plan) == IF plan.present THEN plan.next_agent ELSE "general"

\* evaluator_agent.py:38
planner_ok(plan) == planner_conf(plan) >= 60

\* evaluator_agent.py:77
EvaluatorApproved(outcome, plan) == (EvaluatorScore(outcome) >= 70) /\ planner_ok(plan)

\* workflow.py:108  auto_improve_confidence=0.75, in hundredths
auto_improve_confidence == 75

\* the augmentation round entered only when both tests fail: not approved and
\* below the threshold
AutoImproveBothTests(approved, score, tools) ==
    (~approved /\ score < auto_improve_confidence)
    /\ ("web_search" \in tools \/ "rag" \in tools)

\* evaluator_agent.py:88  the test that opens the augmentation round
AutoImprove(approved, score, tools) ==
    (~approved \/ score < auto_improve_confidence)
    /\ ("web_search" \in tools \/ "rag" \in tools)

\* evaluator_agent.py:94,113  the tool the round uses, "none" when neither branch is taken
AugmentationTool(plan, tools) ==
    IF planner_agent(plan) = "rag" /\ "rag" \in tools THEN "rag"
    ELSE IF "web_search" \in tools THEN "web_search"
    ELSE "none"

\* evaluator_agent.py:110,127  the issue an augmentation failure appends
AugmentationFailed(tool) ==
    IF tool = "rag" THEN "RAG augmentation failed: " ELSE "WebSearch augmentation failed: "

\* evaluator_agent.py:98,117  augmentation_note
AugmentationNote(tool) ==
    IF tool = "rag" THEN "RAG augmentation used" ELSE "WebSearch augmentation used"

\* What self.tools[...].execute(...) can do (evaluator_agent.py:97,116):
\*   no_execute   the tool object has no `execute` attribute: AttributeError
\*   raises       the call raises
\*   returns      the call returns material
ToolResults == {"no_execute", "raises", "returns"}

\* What the rewriting generation call can do (evaluator_agent.py:106-107,123-124):
\* raise, return empty content, return a text
ImproveResults == {"raises", "empty", "text"}

\* both branches run one after the other: `if` where the code has `elif`
AugmentationCallsBothBranches(tool, tools) ==
    IF tool = "rag" /\ "web_search" \in tools THEN <<"rag", "web_search">> ELSE <<tool>>

\* evaluator_agent.py:94-116  if ... elif ...: the tools whose execute is
\* entered in a round that uses `tool`
AugmentationCalls(tool, tools) == <<tool>>

\* the record of a call that raised: nothing is returned
EvaluatorRaised(gen_calls, tool_calls) ==
    [ raised |-> TRUE, approved |-> FALSE, score |-> 0, issues |-> <<>>,
      suggestion |-> "", improved_answer |-> NoneText, augmentation |-> "unset",
      approved_after_improve |-> "unset", gen_calls |-> gen_calls, tool_calls |-> tool_calls,
      branch |-> "none" ]

\* evaluator_agent.py:28-138  EvaluatorAgent.__call__ on the input
\*   in.outcome      what the scoring call does
\*   in.plan         state["plan"]
\*   in.tools        the keys of self.tools
\*   in.tool_result  what the tool's execute does
\*   in.improve      what the rewriting call does
\* The result is result["evaluation"] with four history fields: raised (the
\* call raised and returned nothing), gen_calls (generation calls made),
\* tool_calls (the tools whose execute was entered) and branch (the branch of
\* the augmentation round taken: "rag", "web_search" or "none").
EvaluatorAgent_call(in) ==
    LET j == eval_json(in.outcome)
        score == EvaluatorScore(in.outcome)
        approved == EvaluatorApproved(in.outcome, in.plan)
        tool == AugmentationTool(in.plan, in.tools)
        result == [ raised |-> FALSE, approved |-> approved, score |-> score,
                    issues |-> j.issues, suggestion |-> j.suggestion,
                    improved_answer |-> NoneText, augmentation |-> "unset",
                    approved_after_improve |-> "unset",
                    gen_calls |-> 1, tool_calls |-> <<>>,
                    branch |-> IF AutoImprove(approved, score, in.tools) THEN tool ELSE "none" ]
        \* the except branch: issues.append(...) raises when issues is no list
        failed(g, c) ==
            IF j.issues_is_list
            THEN [ result EXCEPT !.issues = Append(j.issues, AugmentationFailed(tool)),
                                 !.approved_after_improve = "false",
                                 !.gen_calls = g, !.tool_calls = c ]
            ELSE EvaluatorRaised(g, c)
    IN  IF ScoreRaises(in.outcome) THEN EvaluatorRaised(1, <<>>)
        ELSE IF ~AutoImprove(approved, score, in.tools) THEN result
        ELSE IF tool = "none" THEN [result EXCEPT !.approved_after_improve = "false"]
        ELSE IF in.tool_result = "no_execute" THEN failed(1, <<>>)
        ELSE IF in.tool_result = "raises" THEN failed(1, AugmentationCalls(tool, in.tools))
        ELSE IF in.improve = "raises" THEN failed(2, AugmentationCalls(tool, in.tools))
        ELSE IF in.improve = "empty"
        THEN [ result EXCEPT !.approved_after_improve = "false",
                             !.gen_calls = 2, !.tool_calls = AugmentationCalls(tool, in.tools) ]
        ELSE [ result EXCEPT !.improved_answer = <<"<improved answer>">>,
                             !.augmentation = AugmentationNote(tool),
                             !.approved_after_improve = "true",
                             !.gen_calls = 2, !.tool_calls = AugmentationCalls(tool, in.tools) ]

\* workflow.py:105-109  tools={"rag": rag_tool, "web_search": web_search_tool}
EvaluatorTools == {"rag", "web_search"}

\* rag_tool.py:4-67 and web_search_tool.py:11-12: neither tool object has the
\* `execute` method evaluator_agent.py:97,116 calls
WiredToolResult == "no_execute"

\* workflow.py:195  evaluator_agent(state): the state carries no "plan"
\* (workflow.py:63-70, main.py:72) and the tools are the wired ones
WiredInput(outcome) ==
    [ outcome |-> outcome, plan |-> NoPlan, tools |-> EvaluatorTools,
      tool_result |-> WiredToolResult, improve |-> "text" ]

\* workflow.py:195  whether evaluator_agent(state) raises in the workflow
EvaluatorRaises(outcome) == EvaluatorAgent_call(WiredInput(outcome)).raised

\* the improved answer never taken
EvaluatorFinalAlwaysRaw(evaluation, agent_response) == agent_response

\* workflow.py:195-199  final = evaluation.get("improved_answer", agent_response)
EvaluatorFinal(evaluation, agent_response) ==
    IF evaluation.improved_answer # NoneText
    THEN evaluation.improved_answer
    ELSE agent_response

\* workflow.py:195-199  what evaluator_node can get from evaluator_agent(state)
\* over every outcome of the scoring call: <<"<raise>">> when the call raises,
\* else the final answer
EvaluatorNodeFinals(agent_response) ==
    { IF EvaluatorRaises(o) THEN <<"<raise>">>
      ELSE EvaluatorFinal(EvaluatorAgent_call(WiredInput(o)), agent_response) :
        o \in EvalOutcomes }

(***************************************************************************)
(* State                                                                   *)
(***************************************************************************)

VARIABLES
    SESSION_MEMORY,     \* main.py:19  session id -> index into `objects`, 0 when absent
    objects,            \* the buffers of the ShortTermMemory objects main.py:64 creates
    short_term_memory,  \* workflow.py:79  the buffer of the module-level ShortTermMemory
    req,                \* per worker thread: the request it serves and its AppState
    nRequests,          \* requests accepted so far
    added,              \* history variable: every interaction passed to short_term_memory.add
    rq,                 \* the routing specification's query, policy configuration and route
    ev,                 \* the evaluator specification's call: its input, state["route"]
                        \* (which the evaluator does not read) and the record returned
    wx,                 \* the weather specification's call of WeatherAgent
    rg                  \* the rag specification's call of RAGAgent.run

vars == <<SESSION_MEMORY, objects, short_term_memory, req, nRequests, added, rq, ev, wx, rg>>

\* an interaction {"user": ..., "assistant": ...} (short_term.py:14); `sid` is a
\* history field, not program state: the session of the turn that added it
NoEntry == [user |-> NoneText, assistant |-> NoneText, sid |-> "none"]

\* a worker thread that serves no request
IdleReq ==
    [ pc |-> "idle",
      query |-> NoneText,             \* request.query, AppState.query
      session_id |-> "none",          \* request.session_id
      session_memory |-> 0,           \* main.py:66  local session_memory (object index)
      rewritten_query |-> NoneText,   \* AppState.rewritten_query
      route |-> "none",               \* AppState.route
      agent_response |-> NoneText,    \* AppState.agent_response
      response |-> NoneText,          \* AppState.response
      evaluation |-> "none",          \* AppState.evaluation: "none" or "record"
      result |-> "none",              \* what ask_question returned: "ok" / "fault"
      answer |-> NoneText,            \* the "answer" of the returned body
      \* history fields, for stating the properties
      trace |-> <<>>,                 \* the nodes run, in order
      histLen |-> 0 - 1,              \* length of the history the rewriter read
      seenSids |-> {},                \* sessions of the entries the rewriter read
      rewriter_calls |-> 0,           \* generation calls made by the rewriter
      rewriter_raised |-> FALSE,      \* the rewriter's generation call raised
      evaluator_runs |-> 0,           \* times the evaluator node started
      appended |-> 0,                 \* add calls this turn made on any history
      entry |-> NoEntry,              \* the interaction this turn added
      overlapped |-> FALSE,           \* another request of the same session was in flight
      first_turn |-> FALSE,           \* no request of this session was accepted before
      response_writers |-> <<>>,      \* the nodes that set `response`, in order
      router_q |-> NoneText,          \* the question the router classified
      responder_q |-> NoneText,       \* the question the responder answered
      evaluator_q |-> NoneText ]      \* the question the evaluator scored against

InFlight(t) == req[t].pc \notin {"idle", "done"}

\* no evaluator call under way
EvalPending ==
    [ pc |-> "idle", input |-> WiredInput("score_high"), route |-> "general",
      query |-> NoneText, agent_response |-> NoneText,
      out |-> EvaluatorRaised(0, <<>>), final |-> NoneText ]

\* no call of the weather agent under way
WeatherPending ==
    [ pc |-> "idle", query |-> NoneText,
      input |-> [pdf |-> "returns", download |-> "<bulletin text>", detect |-> "returns",
                 mapper |-> "returns", fetch |-> "data", summary |-> "text"],
      pdf_type |-> "none", location |-> NoneText, station_id |-> 0,
      response |-> NoneText, ran |-> <<>> ]

\* no call of the rag agent under way
RagPending ==
    [ pc |-> "idle", query |-> NoneText, has_tool |-> TRUE, retriever |-> "returns",
      docs |-> <<>>, generation |-> "text", retrieved_text |-> NoneText,
      result |-> "none", answer |-> NoneText, context_used |-> -1, generated |-> FALSE ]

RoutePending ==
    [query |-> NoneText, hasClient |-> FALSE, outcome |-> "general", route |-> "none",
     calc |-> NoneText]

Init ==
    /\ SESSION_MEMORY = [s \in SessionIds |-> 0]
    /\ objects = <<>>
    /\ short_term_memory = <<>>
    /\ req = [t \in Threads |-> IdleReq]
    /\ nRequests = 0
    /\ added = <<>>
    /\ rq = RoutePending
    /\ ev = EvalPending
    /\ wx = WeatherPending
    /\ rg = RagPending

(***************************************************************************)
(* Inbound handler  (backend/main.py ask_question)                         *)
(***************************************************************************)

\* A worker thread picks up POST /chat {query, session_id}   (main.py:58-60)
Accept(t, q, s) ==
    /\ ~InFlight(t)
    /\ nRequests < MaxRequests
    /\ nRequests' = nRequests + 1
    /\ LET others == {u \in Threads \ {t} : InFlight(u) /\ req[u].session_id = s}
       IN  req' = [u \in Threads |->
                     IF u = t
                     THEN [IdleReq EXCEPT !.pc = "check", !.query = q, !.session_id = s,
                                          !.overlapped = (others # {}),
                                          !.first_turn = (SESSION_MEMORY[s] = 0 /\ others = {})]
                     ELSE IF u \in others THEN [req[u] EXCEPT !.overlapped = TRUE]
                     ELSE req[u]]
    /\ UNCHANGED <<SESSION_MEMORY, objects, short_term_memory, added, rq, ev, wx, rg>>

\* main.py:63  if session_id not in SESSION_MEMORY
CheckSession(t) ==
    /\ req[t].pc = "check"
    /\ req' = [req EXCEPT ![t].pc =
                 IF SESSION_MEMORY[req[t].session_id] = 0 THEN "create" ELSE "read"]
    /\ UNCHANGED <<SESSION_MEMORY, objects, short_term_memory, nRequests, added, rq, ev, wx, rg>>

\* main.py:64  SESSION_MEMORY[session_id] = ShortTermMemory()
CreateSession(t) ==
    /\ req[t].pc = "create"
    /\ objects' = Append(objects, <<>>)
    /\ SESSION_MEMORY' = [SESSION_MEMORY EXCEPT ![req[t].session_id] = Len(objects) + 1]
    /\ req' = [req EXCEPT ![t].pc = "read"]
    /\ UNCHANGED <<short_term_memory, nRequests, added, rq, ev, wx, rg>>

\* main.py:66-73  session_memory = SESSION_MEMORY[session_id]; app.invoke({...}).
\* The "memory" and "session_id" keys are not channels of AppState
\* (workflow.py:63-70) and no node reads them.
ReadSession(t) ==
    /\ req[t].pc = "read"
    /\ req' = [req EXCEPT ![t].session_memory = SESSION_MEMORY[req[t].session_id],
                          ![t].pc = "rewrite"]
    /\ UNCHANGED <<SESSION_MEMORY, objects, short_term_memory, nRequests, added, rq, ev, wx, rg>>

\* the handler without its except clause: the exception reaches the caller
FaultedPropagates(r) == [r EXCEPT !.pc = "done", !.result = "exception"]

\* main.py:84-88  except Exception: return {"success": False, "error": ...}
Faulted(r) == [r EXCEPT !.pc = "done", !.result = "fault"]

\* main.py:75-82  return {"success": True, ..., "answer": result.get("response", ...)}
Return(t) ==
    /\ req[t].pc = "return"
    /\ req' = [req EXCEPT ![t].pc = "done", ![t].result = "ok",
                          ![t].answer = IF req[t].response = NoneText
                                        THEN <<"No response generated">>
                                        ELSE req[t].response]
    /\ UNCHANGED <<SESSION_MEMORY, objects, short_term_memory, nRequests, added, rq, ev, wx, rg>>

(***************************************************************************)
(* Workflow graph  (src/agents/workflow/workflow.py)                       *)
(***************************************************************************)

\* workflow.py:230-236  the routes the conditional edge can dispatch
GraphRoutes == {"calculator", "web_search", "weather", "rag", "general"}

\* the graph with the calculator node wired to the evaluator like an agent node
NextNodeCalculatorEvaluated(node, r) ==
    CASE node = "rewrite" -> "router"
      [] node = "router" -> IF r \in GraphRoutes THEN r ELSE "KeyError"
      [] node = "web_search" -> "END"
      [] node \in {"calculator", "weather", "rag", "general"} -> "evaluator"
      [] node = "evaluator" -> "END"

\* workflow.py:223-246  the node after `node`; "END" ends the graph
NextNode(node, r) ==
    CASE node = "rewrite" -> "router"
      [] node = "router" -> IF r \in GraphRoutes THEN r ELSE "KeyError"
      [] node \in {"calculator", "web_search"} -> "END"
      [] node \in {"weather", "rag", "general"} -> "evaluator"
      [] node = "evaluator" -> "END"

\* the request after `node` has run and left the state `r`
Advance(r, node) ==
    LET nxt == NextNode(node, r.route)
        ran == [r EXCEPT !.trace = Append(r.trace, node)]
    IN  IF nxt = "KeyError" THEN Faulted(ran)
        ELSE [ran EXCEPT !.pc = IF nxt = "END" THEN "return" ELSE nxt]

\* the emptiness test left out: the rewriter always asks the generation capability
HistoryIsEmptyNever(history) == FALSE

\* workflow.py:122  `if not history`
HistoryIsEmpty(history) == Len(history) = 0

\* workflow.py:115-148  rewrite_query_node
rewrite_query_node(t) ==
    /\ req[t].pc = "rewrite"
    /\ LET history == ShortTermMemory_get(short_term_memory)
           read == [req[t] EXCEPT !.histLen = Len(history),
                                  !.seenSids = {history[i].sid : i \in DOMAIN history}]
       IN  IF HistoryIsEmpty(history)
           THEN req' = [req EXCEPT ![t] =
                          Advance([read EXCEPT !.rewritten_query = read.query], "rewrite")]
           ELSE \E outcome \in RewriterOutcomes :
                  LET called == [read EXCEPT !.rewriter_calls = read.rewriter_calls + 1]
                  IN  IF outcome = <<"<raise>">>
                      THEN req' = [req EXCEPT ![t] =
                                     Faulted([called EXCEPT !.rewriter_raised = TRUE,
                                                            !.trace = Append(called.trace, "rewrite")])]
                      ELSE req' = [req EXCEPT ![t] =
                                     Advance([called EXCEPT !.rewritten_query = Strip(outcome)],
                                             "rewrite")]
    /\ UNCHANGED <<SESSION_MEMORY, objects, short_term_memory, nRequests, added, rq, ev, wx, rg>>

\* workflow.py:77  routing_policy = RoutingPolicy(debug=True): no classifier client
RouterHasClient == FALSE

\* workflow.py:155  query = state.get("rewritten_query", state["query"]); the
\* rewriter, which runs first, always sets rewritten_query
RouterQuery(r) == r.rewritten_query

\* workflow.py:166,171,180,184,188  state["rewritten_query"]
ResponderQuery(r) == r.rewritten_query

\* evaluator_agent.py:29  query = state.get("query", "")
EvaluatorQuery(r) == r.query

\* workflow.py:154-159  router_node
router_node(t) ==
    /\ req[t].pc = "router"
    /\ LET r == route(RouterQuery(req[t]), RouterHasClient, "general")
       IN  req' = [req EXCEPT ![t] =
                     Advance([req[t] EXCEPT !.route = r, !.router_q = RouterQuery(req[t])],
                             "router")]
    /\ UNCHANGED <<SESSION_MEMORY, objects, short_term_memory, nRequests, added, rq, ev, wx, rg>>

\* a calculator node that leaves its result in agent_response, as an agent node
\* does, and never sets response
calculator_nodeAsAgent(t) ==
    /\ req[t].pc = "calculator"
    /\ \E result \in calculator_tool(ResponderQuery(req[t])) :
         req' = [req EXCEPT ![t] =
                   Advance([req[t] EXCEPT
                              !.agent_response = <<"Calculation: ">> \o result,
                              !.responder_q = ResponderQuery(req[t])],
                           "calculator")]
    /\ UNCHANGED <<SESSION_MEMORY, objects, short_term_memory, nRequests, added, rq, ev, wx, rg>>

\* workflow.py:165-168  calculator_node
calculator_node(t) ==
    /\ req[t].pc = "calculator"
    /\ \E result \in calculator_tool(ResponderQuery(req[t])) :
         req' = [req EXCEPT ![t] =
                   Advance([req[t] EXCEPT
                              !.response = <<"Calculation: ">> \o result,
                              !.response_writers = Append(req[t].response_writers, "calculator"),
                              !.responder_q = ResponderQuery(req[t])],
                           "calculator")]
    /\ UNCHANGED <<SESSION_MEMORY, objects, short_term_memory, nRequests, added, rq, ev, wx, rg>>

\* workflow.py:170-173  web_search_node
web_search_node(t) ==
    /\ req[t].pc = "web_search"
    /\ \E result \in web_search_tool(ResponderQuery(req[t])) :
         req' = [req EXCEPT ![t] =
                   Advance([req[t] EXCEPT
                              !.response = result,
                              !.response_writers = Append(req[t].response_writers, "web_search"),
                              !.responder_q = ResponderQuery(req[t])],
                           "web_search")]
    /\ UNCHANGED <<SESSION_MEMORY, objects, short_term_memory, nRequests, added, rq, ev, wx, rg>>

\* workflow.py:179-181  weather_node
weather_node(t) ==
    /\ req[t].pc = "weather"
    /\ \E result \in WeatherAgent_call(ResponderQuery(req[t])) :
         req' = [req EXCEPT ![t] =
                   Advance([req[t] EXCEPT !.agent_response = result,
                                          !.responder_q = ResponderQuery(req[t])],
                           "weather")]
    /\ UNCHANGED <<SESSION_MEMORY, objects, short_term_memory, nRequests, added, rq, ev, wx, rg>>

\* workflow.py:183-185  rag_node
rag_node(t) ==
    /\ req[t].pc = "rag"
    /\ \E result \in RAGAgent_run(ResponderQuery(req[t])) :
         req' = [req EXCEPT ![t] =
                   Advance([req[t] EXCEPT !.agent_response = result,
                                          !.responder_q = ResponderQuery(req[t])],
                           "rag")]
    /\ UNCHANGED <<SESSION_MEMORY, objects, short_term_memory, nRequests, added, rq, ev, wx, rg>>

\* workflow.py:187-188  general_node
general_node(t) ==
    /\ req[t].pc = "general"
    /\ \E result \in UserQueryAgent_call(ResponderQuery(req[t])) :
         req' = [req EXCEPT ![t] =
                   Advance([req[t] EXCEPT !.agent_response = result,
                                          !.responder_q = ResponderQuery(req[t])],
                           "general")]
    /\ UNCHANGED <<SESSION_MEMORY, objects, short_term_memory, nRequests, added, rq, ev, wx, rg>>

\* workflow.py:201-204  the interaction evaluator_node stores
EvaluatorEntry(r, final) == [user |-> r.query, assistant |-> final, sid |-> r.session_id]

\* an evaluator node that adds the responder's answer to short_term_memory
\* before it calls the evaluator, and so also on a call that raises
evaluator_nodeAddFirst(t) ==
    /\ req[t].pc = "evaluator"
    /\ \E final \in EvaluatorNodeFinals(req[t].agent_response) :
         LET e == EvaluatorEntry(req[t], req[t].agent_response)
             started == [req[t] EXCEPT !.evaluator_runs = req[t].evaluator_runs + 1,
                                       !.evaluator_q = EvaluatorQuery(req[t]),
                                       !.appended = req[t].appended + 1,
                                       !.entry = e]
         IN  /\ short_term_memory' = ShortTermMemory_add(short_term_memory, e)
             /\ added' = Append(added, e)
             /\ IF final = <<"<raise>">>
                THEN req' = [req EXCEPT ![t] =
                               Faulted([started EXCEPT !.trace = Append(started.trace, "evaluator")])]
                ELSE req' = [req EXCEPT ![t] =
                               Advance([started EXCEPT !.response = final,
                                                       !.response_writers =
                                                           Append(started.response_writers, "evaluator")],
                                       "evaluator")]
    /\ UNCHANGED <<SESSION_MEMORY, objects, nRequests, rq, ev, wx, rg>>

\* workflow.py:194-206  evaluator_node: evaluate, add to short_term_memory, set response.
\* The add is one step: list.append and list.pop(0) are each atomic in the
\* interpreter, and two adds interleaved between the append and the pop leave
\* the buffer the two adds leave when run one after the other; a rewriter that
\* reads in between sees the same last three entries.
evaluator_node(t) ==
    /\ req[t].pc = "evaluator"
    /\ \E final \in EvaluatorNodeFinals(req[t].agent_response) :
         LET started == [req[t] EXCEPT !.evaluator_runs = req[t].evaluator_runs + 1,
                                       !.evaluator_q = EvaluatorQuery(req[t])]
         IN  IF final = <<"<raise>">>
             THEN /\ req' = [req EXCEPT ![t] =
                               Faulted([started EXCEPT !.trace = Append(started.trace, "evaluator")])]
                  /\ UNCHANGED <<short_term_memory, added, wx, rg>>
             ELSE LET e == EvaluatorEntry(req[t], final)
                  IN  /\ short_term_memory' = ShortTermMemory_add(short_term_memory, e)
                      /\ added' = Append(added, e)
                      /\ req' = [req EXCEPT ![t] =
                                   Advance([started EXCEPT !.response = final,
                                                           !.response_writers =
                                                               Append(started.response_writers, "evaluator"),
                                                           !.appended = started.appended + 1,
                                                           !.entry = e],
                                           "evaluator")]
    /\ UNCHANGED <<SESSION_MEMORY, objects, nRequests, rq, ev, wx, rg>>

Next ==
    \/ \E t \in Threads, q \in Queries, s \in SessionIds : Accept(t, q, s)
    \/ \E t \in Threads : CheckSession(t)
    \/ \E t \in Threads : CreateSession(t)
    \/ \E t \in Threads : ReadSession(t)
    \/ \E t \in Threads : rewrite_query_node(t)
    \/ \E t \in Threads : router_node(t)
    \/ \E t \in Threads : calculator_node(t)
    \/ \E t \in Threads : web_search_node(t)
    \/ \E t \in Threads : weather_node(t)
    \/ \E t \in Threads : rag_node(t)
    \/ \E t \in Threads : general_node(t)
    \/ \E t \in Threads : evaluator_node(t)
    \/ \E t \in Threads : Return(t)

Spec == Init /\ [][Next]_vars


(***************************************************************************)
(* ShortTermMemory on its own: any sequence of add and clear calls         *)
(***************************************************************************)

\* the interactions the memory specification adds
MemEntries ==
    { [user |-> Q_fani, assistant |-> <<"<rag answer>">>, sid |-> "s1"],
      [user |-> Q_hi, assistant |-> <<"<general answer>">>, sid |-> "s2"] }

MemAdd(e) ==
    /\ Len(added) < MaxAdds
    /\ short_term_memory' = ShortTermMemory_add(short_term_memory, e)
    /\ added' = Append(added, e)
    /\ UNCHANGED <<SESSION_MEMORY, objects, req, nRequests, rq, ev, wx, rg>>

MemClear ==
    /\ added # <<>>
    /\ short_term_memory' = ShortTermMemory_clear(short_term_memory)
    /\ added' = <<>>
    /\ UNCHANGED <<SESSION_MEMORY, objects, req, nRequests, rq, ev, wx, rg>>

NextMemory ==
    \/ \E e \in MemEntries : MemAdd(e)
    \/ MemClear

SpecMemory == Init /\ [][NextMemory]_vars

(***************************************************************************)
(* RoutingPolicy on its own: route applied to a bounded set of queries     *)
(***************************************************************************)

\* pieces of text a query is put together from; "w" and "as" join into "was"
Fragments ==
    { <<"+">>, <<"-">>, <<"*">>, <<"/">>, <<"=">>, <<"%">>,
      <<" ">>,
      <<"c", "a", "l", "c", "u", "l", "a", "t", "e">>,
      <<"t", "o", "d", "a", "y">>,
      <<"N", "e", "w", "s">>,
      <<"w">>,
      <<"a", "s">>,
      <<"F", "a", "n", "i">>,
      <<"r", "a", "i", "n">>,
      <<"S", "E", "A">>,
      <<"h", "e", "l", "l", "o">> }

RECURSIVE Concat(_)
\* the pieces joined into one text
Concat(pieces) == IF pieces = <<>> THEN <<>> ELSE Head(pieces) \o Concat(Tail(pieces))

FragmentQueries == {Concat(p) : p \in UNION {[1..k -> Fragments] : k \in 0..MaxFrags}}

Q_weather_in_puri ==
    <<"w", "e", "a", "t", "h", "e", "r", " ", "i", "n", " ", "p", "u", "r", "i">>

Q_1999_cyclone ==
    <<"w", "h", "a", "t", " ", "h", "a", "p", "p", "e", "n", "e", "d", " ", "d", "u", "r", "i", "n", "g", " ", "t", "h", "e", " ", "1", "9", "9", "9", " ", "c", "y", "c", "l", "o", "n", "e">>

\* the percentages and values of the percentage expressions
Percentages == {7, 15, 50}
PercentValues == {3, 100, 200}

\* the text "<p>% of <v>"
PercentExpr(p, v) == NatText(p) \o <<"%", " ", "o", "f", " ">> \o NatText(v)

PercentQueries == {PercentExpr(p, v) : p \in Percentages, v \in PercentValues}

RouteQueries == FragmentQueries \cup {Q_weather_in_puri, Q_1999_cyclone} \cup PercentQueries

InitRoute ==
    /\ SESSION_MEMORY = [s \in SessionIds |-> 0]
    /\ objects = <<>>
    /\ short_term_memory = <<>>
    /\ req = [t \in Threads |-> IdleReq]
    /\ nRequests = 0
    /\ added = <<>>
    /\ \E q \in RouteQueries, h \in BOOLEAN, o \in ClassifierOutcomes :
         /\ (~h => o = "general")
         /\ rq = [query |-> q, hasClient |-> h, outcome |-> o, route |-> "none",
                 calc |-> NoneText]
    /\ ev = EvalPending
    /\ wx = WeatherPending
    /\ rg = RagPending

\* routing_policy.py:87  one call of route
Classify ==
    /\ rq.route = "none"
    /\ rq' = [rq EXCEPT !.route = route(rq.query, rq.hasClient, rq.outcome)]
    /\ UNCHANGED <<SESSION_MEMORY, objects, short_term_memory, req, nRequests, added, ev, wx, rg>>

\* workflow.py:165-168  calculator_node's call of calculator_tool on a query
\* routed to calculator
Calculate ==
    /\ rq.route = "calculator"
    /\ rq.calc = NoneText
    /\ \E result \in calculator_tool(rq.query) : rq' = [rq EXCEPT !.calc = result]
    /\ UNCHANGED <<SESSION_MEMORY, objects, short_term_memory, req, nRequests, added, ev, wx, rg>>

NextRoute == Classify \/ Calculate

SpecRoute == InitRoute /\ [][NextRoute]_vars

(***************************************************************************)
(* EvaluatorAgent on its own: one call on a bounded set of inputs          *)
(***************************************************************************)

\* state["plan"]: absent, or a planner output with a confidence (hundredths)
\* and the agent it chose
Plans ==
    {NoPlan} \cup
    { [present |-> TRUE, confidence |-> c, next_agent |-> a] :
        c \in {50, 90}, a \in {"rag", "general"} }

\* workflow.py:243-245  the routes whose node leads to the evaluator
EvaluatedRoutes == {"weather", "rag", "general"}

EvaluatorInputs ==
    [ outcome : EvalOutcomes, plan : Plans, tools : SUBSET {"rag", "web_search"},
      tool_result : ToolResults, improve : ImproveResults ]

InitEvaluator ==
    /\ SESSION_MEMORY = [s \in SessionIds |-> 0]
    /\ objects = <<>>
    /\ short_term_memory = <<>>
    /\ req = [t \in Threads |-> IdleReq]
    /\ nRequests = 0
    /\ added = <<>>
    /\ rq = RoutePending
    /\ wx = WeatherPending
    /\ rg = RagPending
    /\ \E in \in EvaluatorInputs, r \in EvaluatedRoutes :
         ev = [EvalPending EXCEPT !.pc = "ready", !.input = in, !.route = r,
                                  !.query = Q_fani,
                                  !.agent_response = <<"<agent response>">>]

\* evaluator_agent.py:28-138 and workflow.py:194-206  evaluator_node on a
\* state holding agent_response: one call of the evaluator, the final answer
\* taken from its record and the interaction added to short_term_memory;
\* nothing is added when the call raises
Evaluate ==
    /\ ev.pc = "ready"
    /\ LET out == EvaluatorAgent_call(ev.input)
           final == EvaluatorFinal(out, ev.agent_response)
           e == [user |-> ev.query, assistant |-> final, sid |-> "none"]
       IN  IF out.raised
           THEN /\ ev' = [ev EXCEPT !.pc = "done", !.out = out, !.final = NoneText]
                /\ UNCHANGED <<short_term_memory, added>>
           ELSE /\ ev' = [ev EXCEPT !.pc = "done", !.out = out, !.final = final]
                /\ short_term_memory' = ShortTermMemory_add(short_term_memory, e)
                /\ added' = Append(added, e)
    /\ UNCHANGED <<SESSION_MEMORY, objects, req, nRequests, rq, wx, rg>>

NextEvaluator == Evaluate

SpecEvaluator == InitEvaluator /\ [][NextEvaluator]_vars

(***************************************************************************)
(* WeatherAgent on its own: one call on a bounded set of queries           *)
(***************************************************************************)

\* state["query"] of the calls
WeatherQueries ==
    { <<"w", "e", "a", "t", "h", "e", "r", " ", "i", "n", " ", "p", "u", "r", "i">>,
      <<"R", "a", "i", "n", " ", "i", "n", " ", "C", "u", "t", "t", "a", "c", "k", " ", "t", "o", "d", "a", "y">>,
      <<"w", "i", "l", "l", " ", "i", "t", " ", "r", "a", "i", "n", " ", "t", "o", "d", "a", "y">>,
      <<"p", "u", "r", "i", " ", "o", "r", " ", "c", "u", "t", "t", "a", "c", "k">>,
      <<"c", "o", "a", "s", "t", "a", "l", " ", "w", "a", "r", "n", "i", "n", "g">>,
      <<"f", "i", "s", "h", "e", "r", "m", "e", "n", " ", "a", "d", "v", "i", "s", "o", "r", "y">>,
      <<"w", "e", "e", "k", "l", "y", " ", "r", "a", "i", "n", "f", "a", "l", "l", " ", "b", "u", "l", "l", "e", "t", "i", "n">>,
      <<"e", "v", "e", "n", "i", "n", "g", " ", "b", "u", "l", "l", "e", "t", "i", "n", " ", "p", "d", "f">>,
      <<"c", "o", "m", "p", "o", "s", "i", "t", "e">>,
      <<"r", "a", "i", "n", "f", "a", "l", "l", " ", "i", "n", " ", "p", "u", "r", "i">> }

\* what the call of each stage does
WeatherInputs ==
    [ pdf : {"raises", "returns"}, download : Downloads, detect : {"raises", "returns"},
      mapper : {"raises", "returns"}, fetch : {"raises", "error_key", "data"},
      summary : {"raises", "text"} ]

InitWeather ==
    /\ SESSION_MEMORY = [s \in SessionIds |-> 0]
    /\ objects = <<>>
    /\ short_term_memory = <<>>
    /\ req = [t \in Threads |-> IdleReq]
    /\ nRequests = 0
    /\ added = <<>>
    /\ rq = RoutePending
    /\ ev = EvalPending
    /\ rg = RagPending
    /\ \E q \in WeatherQueries, in \in WeatherInputs :
         wx = [WeatherPending EXCEPT !.pc = "start", !.query = q, !.input = in]

\* weather_agent.py:30  any(k in query for k in pdf_keywords), query lowered (line 20)
BulletinRequested(query) == \E k \in pdf_keywords : StrIn(k, Lower(query))

\* the call ends with `response`, having entered `stage`
WeatherEnds(stage, response) ==
    wx' = [wx EXCEPT !.pc = "done", !.response = response, !.ran = Append(wx.ran, stage)]

\* weather_agent.py:30-43  step 0: the bulletin
WeatherBulletin ==
    /\ wx.pc = "start"
    /\ BulletinRequested(wx.query)
    /\ LET type == pdf_type(Lower(wx.query))
       IN  wx' = [wx EXCEPT
                    !.pc = "done", !.pdf_type = type, !.ran = Append(wx.ran, "bulletin"),
                    !.response =
                        IF wx.input.pdf = "raises" THEN <<WeatherErrorLabel("bulletin")>>
                        ELSE <<"IMD ", UpperLabel(type), " BULLETIN:">>
                               \o imd_pdf_reader(type, wx.input.download)]
    /\ UNCHANGED <<SESSION_MEMORY, objects, short_term_memory, req, nRequests, added, rq, ev, rg>>

\* weather_agent.py:48-51  step 1: location detection
WeatherDetect ==
    /\ wx.pc = "start"
    /\ ~BulletinRequested(wx.query)
    /\ IF wx.input.detect = "raises"
       THEN WeatherEnds("detection", <<WeatherErrorLabel("detection")>>)
       ELSE wx' = [wx EXCEPT !.pc = "mapping", !.ran = Append(wx.ran, "detection"),
                             !.location = weather_location_detector(Lower(wx.query))]
    /\ UNCHANGED <<SESSION_MEMORY, objects, short_term_memory, req, nRequests, added, rq, ev, rg>>

\* weather_agent.py:56-62  step 2: station mapping
WeatherMap ==
    /\ wx.pc = "mapping"
    /\ IF wx.input.mapper = "raises"
       THEN WeatherEnds("mapping", <<WeatherErrorLabel("mapping")>>)
       ELSE LET station_id == weather_station_mapper(wx.location)
            IN  IF station_id = 0
                THEN WeatherEnds("mapping", <<"IMD station not found for: ">> \o wx.location)
                ELSE wx' = [wx EXCEPT !.pc = "fetch", !.ran = Append(wx.ran, "mapping"),
                                      !.station_id = station_id]
    /\ UNCHANGED <<SESSION_MEMORY, objects, short_term_memory, req, nRequests, added, rq, ev, rg>>

\* weather_agent.py:67-74  step 3: the scraper
WeatherFetch ==
    /\ wx.pc = "fetch"
    /\ CASE wx.input.fetch = "raises" ->
                WeatherEnds("fetch", <<WeatherErrorLabel("fetch")>>)
         [] wx.input.fetch = "error_key" ->
                WeatherEnds("fetch", <<"IMD Scraper Error: ", "<error>">>)
         [] wx.input.fetch = "data" ->
                wx' = [wx EXCEPT !.pc = "summary", !.ran = Append(wx.ran, "fetch")]
    /\ UNCHANGED <<SESSION_MEMORY, objects, short_term_memory, req, nRequests, added, rq, ev, rg>>

\* weather_agent.py:93-97  step 4: the summary, or the data as JSON when the
\* generation call raises
WeatherSummarize ==
    /\ wx.pc = "summary"
    /\ IF wx.input.summary = "raises"
       THEN WeatherEnds("summary", <<"<weather data json>">>)
       ELSE WeatherEnds("summary", <<"<summary>">>)
    /\ UNCHANGED <<SESSION_MEMORY, objects, short_term_memory, req, nRequests, added, rq, ev, rg>>

NextWeather ==
    \/ WeatherBulletin
    \/ WeatherDetect
    \/ WeatherMap
    \/ WeatherFetch
    \/ WeatherSummarize

SpecWeather == InitWeather /\ [][NextWeather]_vars

(***************************************************************************)
(* RAGAgent on its own: one call of run                                    *)
(***************************************************************************)

\* the documents of the collection: content and file name
Passages ==
    { [content |-> <<"C", "y", "c", "l", "o", "n", "e", " ", "F", "a", "n", "i", " ", "h", "i", "t", " ", "P", "u", "r", "i", " ", "i", "n", " ", "2", "0", "1", "9">>, file |-> <<"f", "a", "n", "i", "_", "r", "e", "p", "o", "r", "t", ".", "p", "d", "f">>],
      [content |-> <<"t", "h", "e", " ", "t", "r", "a", "c", "k", " ", "f", "o", "r", "e", "c", "a", "s", "t", " ", "e", "r", "r", "o", "r", " ", "w", "a", "s", " ", "5", "0", " ", "k", "m">>, file |-> <<"i", "m", "d", "_", "r", "e", "v", "i", "e", "w", ".", "p", "d", "f">>] }

\* the most documents get_top_k returns in the model
MaxDocs == 2

\* the results of get_top_k
RetrievedDocs == UNION {[1..k -> Passages] : k \in 0..MaxDocs}

\* the queries of the calls
RagQueries == {<<>>, Q_fani}

InitRag ==
    /\ SESSION_MEMORY = [s \in SessionIds |-> 0]
    /\ objects = <<>>
    /\ short_term_memory = <<>>
    /\ req = [t \in Threads |-> IdleReq]
    /\ nRequests = 0
    /\ added = <<>>
    /\ rq = RoutePending
    /\ ev = EvalPending
    /\ wx = WeatherPending
    /\ \E q \in RagQueries, has_tool \in BOOLEAN, retriever \in {"raises", "returns"},
          docs \in RetrievedDocs, generation \in {"raises", "text"} :
         rg = [RagPending EXCEPT !.pc = "start", !.query = q, !.has_tool = has_tool,
                                 !.retriever = retriever, !.docs = docs,
                                 !.generation = generation]

\* rag_agent.py:16  retrieved_text = self.use_tool("rag", query=query, k=5)
RagRetrieve ==
    /\ rg.pc = "start"
    /\ rg' = [rg EXCEPT !.pc = "retrieved",
                        !.retrieved_text = use_tool(rg.has_tool, rg.query, rg.retriever, rg.docs)]
    /\ UNCHANGED <<SESSION_MEMORY, objects, short_term_memory, req, nRequests, added, rq, ev, wx>>

\* rag_agent.py:19-35  the two failure responses
RagFail ==
    /\ rg.pc = "retrieved"
    /\ rg.retrieved_text = <<"<raise>">> \/ IsErrorText(rg.retrieved_text)
    /\ rg' = [rg EXCEPT
                !.pc = "done", !.result = "failure", !.context_used = 0,
                !.answer = IF rg.retrieved_text = <<"<raise>">>
                           THEN <<"RAG retrieval error: ", "<exception>">>
                           ELSE <<"RAG Tool failed to retrieve relevant information.">>]
    /\ UNCHANGED <<SESSION_MEMORY, objects, short_term_memory, req, nRequests, added, rq, ev, wx>>

\* rag_agent.py:28,38-64  the answer generated from the context
RagGenerate ==
    /\ rg.pc = "retrieved"
    /\ rg.retrieved_text # <<"<raise>">>
    /\ ~IsErrorText(rg.retrieved_text)
    /\ LET context == rg.retrieved_text
       IN  rg' = [rg EXCEPT
                    !.pc = "done", !.result = "answer", !.generated = TRUE,
                    !.answer = IF rg.generation = "raises"
                               THEN <<"LLM error: ", "<exception>">>
                               ELSE <<"<answer from context>">>,
                    !.context_used = count(context, <<"D", "o", "c", "u", "m", "e", "n", "t">>)]
    /\ UNCHANGED <<SESSION_MEMORY, objects, short_term_memory, req, nRequests, added, rq, ev, wx>>

NextRag ==
    \/ RagRetrieve
    \/ RagFail
    \/ RagGenerate

SpecRag == InitRag /\ [][NextRag]_vars

(***************************************************************************)
(* Properties                                                              *)
(***************************************************************************)

IsPrefix(a, b) == Len(a) <= Len(b) /\ SubSeq(b, 1, Len(a)) = a

ToolRoutes == {"calculator", "web_search"}
AgentRoutes == {"weather", "rag", "general"}

\* the nodes a request on route r runs, in order
Path(r) ==
    IF r \in ToolRoutes THEN <<"rewrite", "router", r>>
    ELSE <<"rewrite", "router", r, "evaluator">>

\* C1: the nodes of a request run in the order rewrite, router, the one responder
\* named by the route; on the calculator and web_search routes the request ends
\* without the evaluator running, on the weather, rag and general routes the
\* evaluator runs exactly once, after the responder and before the request ends.
C1_NodeOrder ==
    \A t \in Threads :
        LET r == req[t]
        IN  /\ r.route = "none" => IsPrefix(r.trace, <<"rewrite">>)
            /\ r.route # "none" =>
                 /\ r.route \in GraphRoutes
                 /\ Len(r.trace) >= 2
                 /\ IsPrefix(r.trace, Path(r.route))
            /\ r.route \in ToolRoutes => r.evaluator_runs = 0
            /\ r.evaluator_runs <= 1
            /\ (r.pc = "done" /\ r.route # "none") =>
                 /\ r.trace = Path(r.route)
                 /\ r.evaluator_runs = (IF r.route \in AgentRoutes THEN 1 ELSE 0)

\* one request ended on the calculator route with no evaluator run, another on
\* the rag route after one evaluator run
C1_Witness ==
    \E t, u \in Threads :
        /\ req[t].pc = "done" /\ req[t].result = "ok" /\ req[t].route = "calculator"
        /\ req[t].trace = <<"rewrite", "router", "calculator">>
        /\ req[u].pc = "done" /\ req[u].result = "ok" /\ req[u].route = "rag"
        /\ req[u].trace = <<"rewrite", "router", "rag", "evaluator">>

\* C2: the history the rewriter reads for a request of session s holds only
\* entries added by turns of session s.
C2_SessionIsolation ==
    \A t \in Threads : req[t].seenSids \subseteq {req[t].session_id}

\* C3: every turn that completes with a response, on any route, has added exactly
\* one entry to a history.
C3_OneEntryPerTurn ==
    \A t \in Threads :
        (req[t].pc = "done" /\ req[t].result = "ok") => req[t].appended = 1

\* C4: the entry a turn adds has the turn's rewritten query as its user field and
\* the turn's final response as its assistant field.
C4_EntryIsRewrittenAndFinal ==
    \A t \in Threads :
        req[t].appended >= 1 =>
            /\ req[t].entry.user = req[t].rewritten_query
            /\ req[t].entry.assistant = req[t].response

Min(a, b) == IF a <= b THEN a ELSE b

\* C5: after any sequence of add calls the history holds at most 10 entries, the
\* most recently added ones in the order they were added.
C5_LastTenInOrder ==
    LET n == Len(added)
        k == Min(n, 10)
    IN  /\ Len(short_term_memory) <= 10
        /\ short_term_memory = SubSeq(added, n - k + 1, n)

\* eleven or more adds: the first interaction added is gone, the second leads
C5_Witness ==
    /\ Len(added) = 11
    /\ added[1] # added[2]
    /\ Len(short_term_memory) = 10
    /\ short_term_memory[1] = added[2]
    /\ short_term_memory[10] = added[11]

\* C6: two overlapping requests of one session that both added an entry hold one
\* and the same history object, the session's, and it records both entries.
C6_OverlappingTurnsShareHistory ==
    \A t, u \in Threads :
        ( /\ t # u
          /\ req[t].session_id = req[u].session_id
          /\ req[t].overlapped /\ req[u].overlapped
          /\ req[t].pc = "done" /\ req[t].result = "ok" /\ req[t].appended = 1
          /\ req[u].pc = "done" /\ req[u].result = "ok" /\ req[u].appended = 1 )
        => /\ req[t].session_memory = req[u].session_memory
           /\ req[t].session_memory = SESSION_MEMORY[req[t].session_id]
           /\ \E i, j \in DOMAIN objects[req[t].session_memory] :
                /\ i # j
                /\ {objects[req[t].session_memory][i], objects[req[t].session_memory][j]}
                     = {req[t].entry, req[u].entry}

C8_RewriteFailureFallsBack ==
    \A t \in Threads :
        req[t].rewriter_raised =>
            /\ req[t].rewritten_query = req[t].query
            /\ req[t].result # "fault"

\* C9: after the rewrite node the rewritten query of a non-empty query is
\* non-empty, whatever text the generation capability returned.
C9_RewrittenNonEmpty ==
    \A t \in Threads :
        ( /\ req[t].query # <<>>
          /\ req[t].trace # <<>>
          /\ ~req[t].rewriter_raised )
        => req[t].rewritten_query # <<>>

\* the categories of the rule matching, highest rank first
Rank == <<"calculator", "web_search", "rag", "weather">>

\* kw occurs in query, letter case ignored
OccursIgnoringCase(kw, query) ==
    \E i \in 1..(Len(query) - Len(kw) + 1) :
        \A j \in 1..Len(kw) : LowerChar(query[i + j - 1]) = kw[j]

\* the symbols and keywords of a category
CategoryWords(cat) ==
    CASE cat = "calculator" -> calculator_symbols \cup calculator_keywords
      [] cat = "web_search" -> web_search_keywords
      [] cat = "rag" -> rag_keywords \cup historical_intents
      [] cat = "weather" -> weather_keywords

CategoryMatches(cat, query) == \E kw \in CategoryWords(cat) : OccursIgnoringCase(kw, query)

\* C10: the route is the highest-ranked category, in the order calculator,
\* web_search, rag, weather, one of whose symbols or keywords occurs in the
\* query; a query with an arithmetic symbol routes to calculator; a query with no
\* match and no classifier routes to general.
C10_FirstMatchWins ==
    rq.route # "none" =>
        LET matched == {i \in DOMAIN Rank : CategoryMatches(Rank[i], rq.query)}
        IN  /\ matched # {} =>
                 rq.route = Rank[CHOOSE i \in matched : \A j \in matched : i <= j]
            /\ (\E sym \in calculator_symbols : StrIn(sym, rq.query)) => rq.route = "calculator"
            /\ (matched = {} /\ ~rq.hasClient) => rq.route = "general"

\* a query with an arithmetic symbol and a weather keyword was routed to calculator
C10_Witness ==
    /\ rq.route = "calculator"
    /\ \E sym \in calculator_symbols : StrIn(sym, rq.query)
    /\ CategoryMatches("weather", rq.query)

\* C11: the route the policy emits is always one of calculator, web_search,
\* weather, rag, general, each of which has an edge in the graph; with a
\* classifier configured, every classifier output outside those labels and every
\* classifier failure resolves to general.
C11_RouteDispatchable ==
    rq.route # "none" => rq.route \in GraphRoutes

\* C12: "weather in puri" is classified weather, "what happened during the 1999
\* cyclone" rag, and a percentage expression such as "15% of 200" calculator;
\* for a percentage expression the calculator returns the percentage of the
\* value, formatted as an integer when it is whole ("30").
C12_ExamplesAndPercentage ==
    /\ (rq.route # "none" /\ rq.query = Q_weather_in_puri) => rq.route = "weather"
    /\ (rq.route # "none" /\ rq.query = Q_1999_cyclone) => rq.route = "rag"
    /\ (rq.route # "none" /\ rq.query \in PercentQueries) => rq.route = "calculator"
    /\ (rq.calc # NoneText /\ rq.query = PercentExpr(15, 200)) => rq.calc = <<"3", "0">>
    /\ \A p \in Percentages, v \in PercentValues :
         (rq.calc # NoneText /\ rq.query = PercentExpr(p, v) /\ (p * v) % 100 = 0)
            => rq.calc = NatText((p * v) \div 100)

\* C13: a plain arithmetic query that is the first turn of a fresh session
\* ("2+2") is routed to calculator, its response is "Calculation: 4", and the
\* evaluator is not invoked for it.
C13_FirstTurnArithmetic ==
    \A t \in Threads :
        (req[t].pc = "done" /\ req[t].first_turn /\ req[t].query = Q_calc)
        => /\ req[t].result = "ok"
           /\ req[t].route = "calculator"
           /\ req[t].response = <<"Calculation: ", "4">>
           /\ req[t].evaluator_runs = 0

\* C14: every request that ends without a fault has `response` set to a text,
\* and exactly one node set it: the tool node on the calculator and web_search
\* routes, the evaluator node on the weather, rag and general routes.
C14_ResponseSetOnce ==
    \A t \in Threads :
        (req[t].pc = "done" /\ req[t].result = "ok")
        => /\ req[t].response # NoneText
           /\ req[t].answer = req[t].response
           /\ req[t].route \in ToolRoutes => req[t].response_writers = <<req[t].route>>
           /\ req[t].route \in AgentRoutes => req[t].response_writers = <<"evaluator">>
           /\ req[t].route \in ToolRoutes \cup AgentRoutes

\* both kinds of route have ended without a fault: a calculator turn and a rag
\* turn, each with its response set
C14_Witness ==
    \E t, u \in Threads :
        /\ req[t].pc = "done" /\ req[t].result = "ok" /\ req[t].route = "calculator"
        /\ req[t].response_writers = <<"calculator">>
        /\ req[u].pc = "done" /\ req[u].result = "ok" /\ req[u].route = "rag"
        /\ req[u].response_writers = <<"evaluator">>

\* C15: once the rewriter has run, every downstream node uses the rewritten
\* query and not the original: the router, each responder, and the evaluator
\* when it scores and augments.
C15_DownstreamUsesRewritten ==
    \A t \in Threads :
        /\ req[t].router_q # NoneText => req[t].router_q = req[t].rewritten_query
        /\ req[t].responder_q # NoneText => req[t].responder_q = req[t].rewritten_query
        /\ req[t].evaluator_q # NoneText => req[t].evaluator_q = req[t].rewritten_query

\* C16: at the end of a request the evaluation record is set in the request
\* state exactly when the route is weather, rag or general; on those routes the
\* returned state carries the evaluator's record.
C16_EvaluationSetOnAgentRoutes ==
    \A t \in Threads :
        (req[t].pc = "done" /\ req[t].result = "ok")
        => (req[t].evaluation # "none" <=> req[t].route \in AgentRoutes)

\* C17: the evaluator never raises: whatever the scoring generation call does
\* (raises, returns text that is not JSON, JSON that is not an object, an
\* object whose score is missing or not numeric) it returns an evaluation
\* record with a numeric score.
C17_EvaluatorNeverRaises ==
    (ev.pc = "done"
       /\ ev.input.outcome \in {"llm_error", "not_json", "not_object",
                                "score_missing", "score_not_numeric"})
    => (~ev.out.raised /\ ev.out.score \in 0..100)

ScoringNotes(out) == SelectSeq(out.issues, LAMBDA n : n = "Evaluator LLM error: ")

C19_RuleRouteApprovedByScore ==
    (ev.pc = "done" /\ ~ev.out.raised /\ ev.input.plan = NoPlan)
    => (ev.out.approved <=> ev.out.score >= 70)

\* C20: the evaluator enters the augmentation round exactly when (approved is
\* false or the score is below 0.75) and at least one of retrieval and web search
\* is configured; the record has the approved_after_improve key exactly when
\* the round was entered.  When approved is true and the score is 0.75 or
\* more, no tool is called, no second generation call is made and the final
\* answer is the responder's answer.
C20_AugmentationWhenDue ==
    (ev.pc = "done" /\ ~ev.out.raised)
    => /\ (ev.out.approved_after_improve # "unset")
            <=> ( (~ev.out.approved \/ ev.out.score < 75) /\ ev.input.tools # {} )
       /\ (ev.out.approved_after_improve = "unset")
            => (ev.out.tool_calls = <<>> /\ ev.out.gen_calls = 1)
       /\ (ev.out.approved /\ ev.out.score >= 75)
            => /\ ev.out.tool_calls = <<>>
               /\ ev.out.gen_calls = 1
               /\ ev.out.improved_answer = NoneText
               /\ ev.final = ev.agent_response

\* an approved answer scored 0.72, below the threshold, was augmented
C20_Witness ==
    /\ ev.pc = "done"
    /\ ev.out.approved
    /\ ev.out.score = 72
    /\ ev.out.approved_after_improve = "true"
    /\ ev.out.tool_calls # <<>>
    /\ ev.final = <<"<improved answer>">>

\* C21: per evaluated turn the evaluator makes at most one augmentation
\* attempt, also when both retrieval and web search are configured, the score
\* is low and the first-choice augmentation fails: at most one retrieval or
\* search call and at most two generation calls (one scoring, one rewriting).
C21_AtMostOneAugmentation ==
    ev.pc = "done"
    => /\ Len(ev.out.tool_calls) <= 1
       /\ ev.out.gen_calls <= 2
       /\ ev.out.gen_calls = 2 => Len(ev.out.tool_calls) = 1

\* both tools configured, a low score, and the retrieval call of a rag turn
\* raised: web search was not tried after it
C21_Witness ==
    /\ ev.pc = "done"
    /\ ev.input.tools = {"rag", "web_search"}
    /\ ev.input.plan.present /\ ev.input.plan.next_agent = "rag"
    /\ ev.input.outcome = "score_low"
    /\ ev.input.tool_result = "raises"
    /\ ev.out.tool_calls = <<"rag">>
    /\ ev.out.gen_calls = 1
    /\ ev.out.approved_after_improve = "false"

\* C22: when augmentation is attempted, retrieval augmentation is used if the
\* route of the turn was rag and a retrieval capability is configured;
\* otherwise web-search augmentation is used if configured.  So a turn routed to
\* rag in the wired workflow is augmented through retrieval, not web search.
C22_RetrievalForRagRoute ==
    (ev.pc = "done" /\ ~ev.out.raised /\ ev.out.approved_after_improve # "unset")
    => ev.out.branch =
         IF ev.route = "rag" /\ "rag" \in ev.input.tools THEN "rag"
         ELSE IF "web_search" \in ev.input.tools THEN "web_search"
         ELSE "none"

\* the augmentation round of the call is entered, uses a tool, and fails at a
\* step: fetching the material or the rewriting generation call
AugmentationFails(in) ==
    /\ ~ScoreRaises(in.outcome)
    /\ AutoImprove(EvaluatorApproved(in.outcome, in.plan), EvaluatorScore(in.outcome), in.tools)
    /\ AugmentationTool(in.plan, in.tools) # "none"
    /\ (in.tool_result # "returns" \/ in.improve = "raises")

\* C23: if the augmentation attempt fails at any step, the evaluator does not
\* raise, appends an issue describing the failure to the issues of the record,
\* leaves improved_answer unset and sets approved_after_improve to false; the
\* final response of the turn is then the responder's original answer.
C23_AugmentationFailureIsRecorded ==
    (ev.pc = "done" /\ AugmentationFails(ev.input))
    => /\ ~ev.out.raised
       /\ ev.out.issues # <<>>
       /\ ev.out.issues[Len(ev.out.issues)]
            = AugmentationFailed(AugmentationTool(ev.input.plan, ev.input.tools))
       /\ ev.out.improved_answer = NoneText
       /\ ev.out.approved_after_improve = "false"
       /\ ev.final = ev.agent_response

\* C24: for every request, whatever a node of the pipeline does (raising
\* included), the handler returns either {success: true, query, answer,
\* session_id} or {success: false, error}; no exception reaches the caller, and
\* the process goes on serving later requests.
C24_HandlerAlwaysReturns ==
    \A t \in Threads :
        /\ req[t].pc = "done" => req[t].result \in {"ok", "fault"}
        /\ req[t].result = "ok"
             => /\ req[t].pc = "done"
                /\ req[t].answer # NoneText
                /\ req[t].query # NoneText
                /\ req[t].session_id \in SessionIds
        /\ req[t].result = "fault" => (req[t].pc = "done" /\ req[t].answer = NoneText)
        /\ req[t].rewriter_raised => (req[t].pc = "done" /\ req[t].result = "fault")

\* a request faulted, and the next request of the same session, accepted after
\* it had ended, was answered
C24_Witness ==
    \E t, u \in Threads :
        /\ nRequests = 2
        /\ req[t].pc = "done" /\ req[t].result = "fault"
        /\ req[u].pc = "done" /\ req[u].result = "ok"
        /\ req[u].session_id = req[t].session_id
        /\ ~req[u].first_turn /\ ~req[u].overlapped

\* the bulletin keywords of the claim
BulletinKeywords == pdf_keywords

\* C25: when the query of the weather responder contains a bulletin keyword
\* it selects exactly one bulletin category that the bulletin reader
\* recognises, returns the text of that bulletin with a label prefix, and runs
\* none of the location-detection, station-mapping, data-fetch and summary
\* stages.
C25_BulletinCategoryRecognised ==
    ( /\ wx.pc = "done"
      /\ \E k \in BulletinKeywords : StrIn(k, Lower(wx.query))
      /\ wx.input.pdf = "returns"
      /\ wx.input.download = "<bulletin text>" )
    => /\ wx.pdf_type \in IMD_PDFS
       /\ wx.response[1] = "IMD "
       /\ wx.response[Len(wx.response)] = "<bulletin text>"
       /\ wx.ran = <<"bulletin">>

\* the stage at which the call ended
LastStage == wx.ran[Len(wx.ran)]

\* the capability called by the stage did not deliver: the call raised, the
\* download of a bulletin the reader knows gave an error text, or the
\* scraper's record has the key "error"
StageFailed(stage) ==
    CASE stage = "bulletin" ->
             \/ wx.input.pdf = "raises"
             \/ /\ wx.pdf_type \in IMD_PDFS
                /\ wx.input.download = "<download error text>"
      [] stage = "detection" -> wx.input.detect = "raises"
      [] stage = "mapping" -> wx.input.mapper = "raises"
      [] stage = "fetch" -> wx.input.fetch \in {"raises", "error_key"}
      [] stage = "summary" -> wx.input.summary = "raises"

\* the labels with which the error responses of a stage begin
StageErrorLabels(stage) ==
    CASE stage = "bulletin" -> {"PDF Error: "}
      [] stage = "detection" -> {"Location detection error: "}
      [] stage = "mapping" -> {"Station mapping error: ", "IMD station not found for: "}
      [] stage = "fetch" -> {"Weather scraping error: ", "IMD Scraper Error: "}
      [] stage = "summary" -> {}

\* C26: in the weather pipeline a failure at any stage (bulletin fetch,
\* location detection, station mapping, data fetch, summary generation) stops
\* the pipeline at that stage, no later stage runs, and the response is an
\* error string whose label identifies that stage and differs from the label
\* of every other stage.
C26_StageFailureIsLabelled ==
    (wx.pc = "done" /\ StageFailed(LastStage))
    => /\ wx.response[1] \in StageErrorLabels(LastStage)
       /\ \A i \in 1..Len(WeatherStages) :
              WeatherStages[i] # LastStage
              => wx.response[1] \notin StageErrorLabels(WeatherStages[i])

\* the names of the gazetteer
StationNames == {STATION_MAP[i][1] : i \in DOMAIN STATION_MAP}

\* C30: in the weather pipeline the location produced by the detection stage
\* is always a key of the gazetteer (a matched place name or the default
\* capital), so whenever detection and mapping both succeed the station id is
\* defined and the "IMD station not found" response is never produced.
C30_LocationIsGazetteerKey ==
    /\ (wx.ran # <<>> /\ wx.ran[1] = "detection" /\ wx.input.detect = "returns")
       => wx.location \in StationNames
    /\ (Len(wx.ran) >= 2 /\ wx.ran[2] = "mapping" /\ wx.input.mapper = "returns")
       => /\ wx.station_id # 0
          /\ \E i \in DOMAIN STATION_MAP :
                 STATION_MAP[i] = <<wx.location, wx.station_id>>
    /\ wx.pc = "done" => wx.response[1] # "IMD station not found for: "

\* a query naming no place of the gazetteer is mapped to the station of the
\* capital, and one naming two places to the station of the first in the
\* order of the gazetteer
C30_Witness ==
    /\ wx.ran = <<"detection", "mapping">>
    /\ wx.pc = "fetch"
    /\ \/ /\ \A n \in StationNames : ~StrIn(n, Lower(wx.query))
          /\ wx.location = STATION_MAP[1][1]
          /\ wx.station_id = STATION_MAP[1][2]
       \/ /\ StrIn(STATION_MAP[2][1], Lower(wx.query))
          /\ StrIn(STATION_MAP[3][1], Lower(wx.query))
          /\ wx.location = STATION_MAP[2][1]
          /\ wx.station_id = STATION_MAP[2][2]

\* the retrieval call failed: the tool is not registered, the query is empty
\* or get_top_k raised
RetrievalFailed == ~rg.has_tool \/ rg.query = <<>> \/ rg.retriever = "raises"

\* C27: the rag responder returns its failure response with context_used = 0
\* if and only if the retrieval call failed: a successful retrieval, whatever
\* the text of the retrieved passages, proceeds to answer generation, and an
\* empty retrieval result is treated as a valid non-error result.
C27_FailureIffRetrievalFailed ==
    rg.pc = "done"
    => /\ (rg.result = "failure" /\ rg.context_used = 0) <=> RetrievalFailed
       /\ ~RetrievalFailed => (rg.generated /\ rg.result = "answer")

\* the augmentation round of the call produced a non-empty text: a branch was
\* taken, the tool returned and the rewriting call returned a text
AugmentationProduced ==
    /\ ev.out.branch # "none"
    /\ ev.input.tool_result = "returns"
    /\ ev.input.improve = "text"

\* C28: on weather, rag and general routes the final response equals the
\* evaluator's improved answer when an augmentation produced a non-empty one,
\* and otherwise equals the responder's raw output unchanged; the value
\* appended to the session history as the assistant text is that same final
\* response.
C28_FinalIsImprovedOrRaw ==
    (ev.pc = "done" /\ ev.route \in EvaluatedRoutes /\ ~ev.out.raised)
    => /\ AugmentationProduced => ev.final = <<"<improved answer>">>
       /\ ~AugmentationProduced => ev.final = ev.agent_response
       /\ Len(added) = 1
       /\ added[1].assistant = ev.final
       /\ short_term_memory[Len(short_term_memory)].assistant = ev.final

\* a rag turn whose answer was improved, and the improved answer in the history
C28_Witness ==
    /\ ev.pc = "done"
    /\ ev.route = "rag"
    /\ AugmentationProduced
    /\ ev.final = <<"<improved answer>">>
    /\ ev.final # ev.agent_response
    /\ short_term_memory = <<[user |-> ev.query, assistant |-> <<"<improved answer>">>, sid |-> "none"]>>

\* C29: a request that ends in a fault (the handler returns success: false)
\* appends nothing to any session history: every history is the same after
\* the failed request as before it, and a later request sees no trace of the
\* failed turn.
C29_FaultAppendsNothing ==
    \A t \in Threads :
        req[t].result = "fault"
        => /\ req[t].appended = 0
           /\ req[t].entry = NoEntry
           /\ req[t].response = NoneText
           /\ req[t].session_memory \in DOMAIN objects
              => objects[req[t].session_memory] = <<>>

\* a request answered and added to the history, then a request whose rewriter
\* raised on that history: the history holds the first request's entry only
C29_Witness ==
    \E t \in Threads :
        /\ req[t].result = "fault"
        /\ req[t].rewriter_raised
        /\ req[t].histLen = 1
        /\ Len(added) = 1
        /\ short_term_memory = added

====
